---- MODULE Spec2Model ----
(***************************************************************************)
(* A model of the vuex-rv store: the module tree (ModuleCollection), the   *)
(* installation walk that builds the flat registries (store-util.js) and   *)
(* the store facade (store.js).                                            *)
(*                                                                         *)
(* JavaScript values of the composed state are modelled as functions from  *)
(* relative property paths to nodes: the node at << >> says whether the    *)
(* value is an object or a number, the node at <<"a", "n">> is the value   *)
(* of property n of property a.  undefined is the function with the empty  *)
(* domain.                                                                 *)
(***************************************************************************)
EXTENDS Integers, Sequences, FiniteSets, TLC

\* ------------------------------------------------------------------ bounds

\* Top-level calls made on the store in one behaviour.
MaxCalls == 3

\* Calls of dispatch that found handlers in one behaviour.
MaxDispatches == 2

\* ------------------------------------------------------- sequences, paths

\* path.slice(0, -1)
Front(path) == SubSeq(path, 1, Len(path) - 1)

\* path[path.length - 1]
Last(path) == path[Len(path)]

IsPrefix(p, q) == Len(p) <= Len(q) /\ SubSeq(q, 1, Len(p)) = p

Range(s) == {s[i] : i \in DOMAIN s}

\* The position of the first element of s whose key is k, 0 when there is none.
IndexOf(s, k) ==
    IF \E i \in DOMAIN s : s[i] = k
    THEN CHOOSE i \in DOMAIN s : s[i] = k /\ \A j \in 1..(i - 1) : s[j] # k
    ELSE 0

\* s without its i-th element
RemoveAt(s, i) == SubSeq(s, 1, i - 1) \o SubSeq(s, i + 1, Len(s))

\* ------------------------------------------------------ JavaScript values

Undefined == << >>

ObjNode == [obj |-> TRUE, val |-> 0]

Leaf(v) == [obj |-> FALSE, val |-> v]

IsDefined(v) == << >> \in DOMAIN v

IsObject(v) == IsDefined(v) /\ v[<< >>].obj

\* {}
EmptyObj == (<< >> :> ObjNode)

\* the number v
Num(v) == (<< >> :> Leaf(v))

\* v[k], for a defined v: undefined when v has no property k (or is a number)
Prop(v, k) ==
    LET under == {p \in DOMAIN v : Len(p) >= 1 /\ p[1] = k}
    IN  [q \in {Tail(p) : p \in under} |-> v[<<k>> \o q]]

\* k in v, for an object v
HasProp(v, k) == <<k>> \in DOMAIN v

\* the value of `state` once the property `k` of the object at `at` is deleted
DeleteAt(state, at, k) ==
    [p \in {q \in DOMAIN state : ~IsPrefix(at \o <<k>>, q)} |-> state[p]]

\* the value of `state` once the property `k` of the object at `at` is set to w
SetAt(state, at, k, w) ==
    LET kept == DeleteAt(state, at, k)
        here == at \o <<k>>
    IN  [p \in DOMAIN kept \cup {here \o q : q \in DOMAIN w} |->
            IF IsPrefix(here, p) THEN w[SubSeq(p, Len(here) + 1, Len(p))]
            ELSE kept[p]]

\* the number stored in property k of the object at `at`
NumAt(state, at, k) == state[at \o <<k>>].val

\* path.reduce((state, key) => state[key], state): reading a property of
\* undefined throws a TypeError
RECURSIVE getNestedState(_, _)
getNestedState(state, path) ==
    IF path = << >> THEN [threw |-> FALSE, v |-> state]
    ELSE IF ~IsDefined(state) THEN [threw |-> TRUE, v |-> Undefined]
    ELSE getNestedState(Prop(state, Head(path)), Tail(path))

\* ------------------------------------------------------------ definitions
\* What a raw module definition of the model looks like:
\*   [namespaced, state, mutations, actions, getters, modules]
\* with mutations a sequence of [key, h], actions of [key, h, root], getters
\* of [key, g] and modules of [key, def], each in declaration order.

\* ------------------------------------------------------------------ Module

\* new Module(rawModule, runtime): the node of the tree; children holds the
\* keys of _children in insertion order; context is << >> until installModule
\* sets module.context, then <<local>>.
NewModule(rawModule, runtime) ==
    [runtime    |-> runtime,
     context    |-> << >>,
     namespaced |-> rawModule.namespaced,
     mutations  |-> rawModule.mutations,
     actions    |-> rawModule.actions,
     getters    |-> rawModule.getters,
     state      |-> rawModule.state,
     children   |-> << >>]

\* A reference to a module of the tree, undefined, or a TypeError.
ModRef(path) == [threw |-> FALSE, def |-> TRUE, path |-> path]

NoMod == [threw |-> FALSE, def |-> FALSE, path |-> << >>]

ThrewMod == [threw |-> TRUE, def |-> FALSE, path |-> << >>]

\* module.hasChild(key)
hasChild(tree, path, key) == key \in Range(tree[path].children)

\* module.getChild(key)
getChild(tree, path, key) ==
    IF hasChild(tree, path, key) THEN ModRef(path \o <<key>>) ELSE NoMod

\* module.addChild(key, child): an existing key keeps its place, and the
\* module that was there goes with its whole subtree.
addChild(tree, path, key, child) ==
    LET here == path \o <<key>>
        kept == {p \in DOMAIN tree : ~IsPrefix(here, p)}
    IN  [p \in kept \cup {here} |->
            IF p = here THEN child
            ELSE IF p = path /\ ~hasChild(tree, path, key)
                 THEN [tree[p] EXCEPT !.children = Append(@, key)]
                 ELSE tree[p]]

\* module.removeChild(key)
removeChild(tree, path, key) ==
    LET here == path \o <<key>>
        kept == {p \in DOMAIN tree : ~IsPrefix(here, p)}
    IN  [p \in kept |->
            IF p = path
            THEN [tree[p] EXCEPT !.children = SelectSeq(@, LAMBDA k : k # key)]
            ELSE tree[p]]

\* module.update(rawModule): the definitions are replaced, the state is kept.
moduleUpdate(tree, path, rawModule) ==
    [tree EXCEPT ![path] = [@ EXCEPT !.mutations = rawModule.mutations,
                                     !.actions   = rawModule.actions,
                                     !.getters   = rawModule.getters]]

\* -------------------------------------------------------- ModuleCollection

RECURSIVE getReduce(_, _, _)
getReduce(tree, module, keys) ==
    IF keys = << >> THEN module
    ELSE IF ~module.def THEN ThrewMod
    ELSE getReduce(tree, getChild(tree, module.path, Head(keys)), Tail(keys))

\* get(path)
get(tree, path) == getReduce(tree, ModRef(<< >>), path)

\* the reduce of getNamespace, were it to read the flag before stepping to the child
RECURSIVE getNamespaceReduceParentFlag(_, _, _, _)
getNamespaceReduceParentFlag(tree, module, namespace, keys) ==
    IF keys = << >> THEN namespace
    ELSE LET key   == Head(keys)
             child == getChild(tree, module.path, key)
         IN  getNamespaceReduceParentFlag(tree, child,
                 namespace \o (IF tree[module.path].namespaced THEN key \o "/" ELSE ""),
                 Tail(keys))

RECURSIVE getNamespaceReduce(_, _, _, _)
getNamespaceReduce(tree, module, namespace, keys) ==
    IF keys = << >> THEN namespace
    ELSE LET key   == Head(keys)
             child == getChild(tree, module.path, key)
         IN  getNamespaceReduce(tree, child,
                 namespace \o (IF tree[child.path].namespaced THEN key \o "/" ELSE ""),
                 Tail(keys))

\* getNamespace(path), for a registered path
getNamespace(tree, path) == getNamespaceReduce(tree, ModRef(<< >>), "", path)

RECURSIVE register(_, _, _, _)
RECURSIVE registerNested(_, _, _, _)
\* register(path, rawModule, runtime): [threw, tree]
register(tree, path, rawModule, runtime) ==
    LET newModule == NewModule(rawModule, runtime)
    IN  IF path = << >>
        THEN registerNested([threw |-> FALSE, tree |-> (<< >> :> newModule)],
                            path, rawModule.modules, runtime)
        ELSE LET parent == get(tree, Front(path))
             IN  IF parent.threw \/ ~parent.def
                 THEN [threw |-> TRUE, tree |-> tree]
                 ELSE registerNested(
                        [threw |-> FALSE,
                         tree  |-> addChild(tree, parent.path, Last(path), newModule)],
                        path, rawModule.modules, runtime)

\* forEachValue(rawModule.modules, ...)
registerNested(r, path, modules, runtime) ==
    IF r.threw \/ modules = << >> THEN r
    ELSE registerNested(
            register(r.tree, path \o <<Head(modules).key>>, Head(modules).def, runtime),
            path, Tail(modules), runtime)

\* unregister(path) that detaches nothing
unregisterKeepsChild(tree, path) ==
    LET parent == get(tree, Front(path))
    IN  [threw |-> parent.threw \/ ~parent.def, tree |-> tree]

\* unregister(path): [threw, tree]
unregister(tree, path) ==
    LET parent == get(tree, Front(path))
        key    == Last(path)
    IN  IF parent.threw \/ ~parent.def THEN [threw |-> TRUE, tree |-> tree]
        ELSE LET child == getChild(tree, parent.path, key)
             IN  IF ~child.def THEN [threw |-> FALSE, tree |-> tree]
                 ELSE IF ~tree[child.path].runtime THEN [threw |-> FALSE, tree |-> tree]
                 ELSE [threw |-> FALSE, tree |-> removeChild(tree, parent.path, key)]

\* isRegistered(path): [threw, v]
isRegistered(tree, path) ==
    LET parent == get(tree, Front(path))
        key    == Last(path)
    IN  IF parent.threw THEN [threw |-> TRUE, v |-> FALSE]
        ELSE IF parent.def THEN [threw |-> FALSE, v |-> hasChild(tree, parent.path, key)]
        ELSE [threw |-> FALSE, v |-> FALSE]

RECURSIVE update(_, _, _)
RECURSIVE updateNested(_, _, _)
\* the loop of update, were it to register a key the target lacks and go on
RECURSIVE updateNestedAddsChild(_, _, _)
updateNestedAddsChild(tree, path, modules) ==
    IF modules = << >> THEN tree
    ELSE IF ~getChild(tree, path, Head(modules).key).def
    THEN updateNestedAddsChild(
            register(tree, path \o <<Head(modules).key>>, Head(modules).def, TRUE).tree,
            path, Tail(modules))
    ELSE updateNestedAddsChild(
            update(tree, path \o <<Head(modules).key>>, Head(modules).def),
            path, Tail(modules))

\* update(path, targetModule, newModule), the target being the module at path
update(tree, path, newModule) ==
    updateNested(moduleUpdate(tree, path, newModule), path, newModule.modules)

\* for (const key in newModule.modules): a key the target lacks ends the loop
updateNested(tree, path, modules) ==
    IF modules = << >> THEN tree
    ELSE IF ~getChild(tree, path, Head(modules).key).def THEN tree
    ELSE updateNested(update(tree, path \o <<Head(modules).key>>, Head(modules).def),
                      path, Tail(modules))

\* ------------------------------------------------------------------- store
\* The store is a record of the fields of Store:
\*   modules (the tree of _modules), state (_state.data), mutations, actions,
\*   wrappedGetters, modulesNamespaceMap, committing, subscribers,
\*   actionSubscribers.
\* The operators below work on an execution [s, threw]: the store, and whether
\* an exception is propagating.

\* _withCommit(fn), up to the call of fn: the flag is set
Committing(e) == [e EXCEPT !.s.committing = TRUE]

\* _withCommit(fn), r being what fn() made of Committing(e): the flag is put
\* back to what it was in e, but not when fn throws
withCommit(e, r) ==
    IF r.threw THEN r ELSE [r EXCEPT !.s.committing = e.s.committing]

\* store._mutations[type] || (store._mutations[type] = []), then entry.push
pushEntry(registry, type, entry) ==
    IF type \in DOMAIN registry
    THEN [registry EXCEPT ![type] = Append(@, entry)]
    ELSE (type :> <<entry>>) @@ registry

\* registerMutation(store, type, handler, local)
registerMutation(e, type, handler, local) ==
    [e EXCEPT !.s.mutations = pushEntry(@, type, [h |-> handler, local |-> local])]

\* registerAction(store, type, handler, local)
registerAction(e, type, handler, local) ==
    [e EXCEPT !.s.actions = pushEntry(@, type, [h |-> handler, local |-> local])]

\* registerGetter, were it to assign over a getter that is there
registerGetterLastWins(e, type, rawGetter, local) ==
    [e EXCEPT !.s.wrappedGetters =
        (type :> [g |-> rawGetter, local |-> local]) @@ @]

\* registerGetter(store, type, rawGetter, local): the first one stays
registerGetter(e, type, rawGetter, local) ==
    IF type \in DOMAIN e.s.wrappedGetters THEN e
    ELSE [e EXCEPT !.s.wrappedGetters = (type :> [g |-> rawGetter, local |-> local]) @@ @]

RECURSIVE forEachMutation(_, _, _, _)
forEachMutation(e, namespace, local, mutations) ==
    IF mutations = << >> THEN e
    ELSE forEachMutation(
            registerMutation(e, namespace \o Head(mutations).key, Head(mutations).h, local),
            namespace, local, Tail(mutations))

\* module.forEachAction, were installModule to prefix the actions flagged root too
RECURSIVE forEachActionPrefixesRoot(_, _, _, _)
forEachActionPrefixesRoot(e, namespace, local, actions) ==
    IF actions = << >> THEN e
    ELSE forEachActionPrefixesRoot(
            registerAction(e, namespace \o Head(actions).key, Head(actions).h, local),
            namespace, local, Tail(actions))

RECURSIVE forEachAction(_, _, _, _)
forEachAction(e, namespace, local, actions) ==
    IF actions = << >> THEN e
    ELSE LET action == Head(actions)
             type   == IF action.root THEN action.key ELSE namespace \o action.key
         IN  forEachAction(registerAction(e, type, action.h, local),
                           namespace, local, Tail(actions))

RECURSIVE forEachGetter(_, _, _, _)
forEachGetter(e, namespace, local, getters) ==
    IF getters = << >> THEN e
    ELSE forEachGetter(
            registerGetter(e, namespace \o Head(getters).key, Head(getters).g, local),
            namespace, local, Tail(getters))

\* the "set state" step, were it to keep a property the parent's state has
installStateKeepsExisting(e, path) ==
    LET parentState == getNestedState(e.s.state, Front(path))
        moduleName  == Last(path)
    IN  IF parentState.threw THEN [e EXCEPT !.threw = TRUE]
        ELSE withCommit(e,
                IF ~IsObject(parentState.v) THEN [Committing(e) EXCEPT !.threw = TRUE]
                ELSE IF HasProp(parentState.v, moduleName) THEN Committing(e)
                ELSE [Committing(e) EXCEPT !.s.state =
                         SetAt(@, Front(path), moduleName, e.s.modules[path].state)])

\* the "set state" step of installModule
installState(e, path) ==
    LET parentState == getNestedState(e.s.state, Front(path))
        moduleName  == Last(path)
    IN  IF parentState.threw THEN [e EXCEPT !.threw = TRUE]
        ELSE withCommit(e,
                IF ~IsObject(parentState.v) THEN [Committing(e) EXCEPT !.threw = TRUE]
                ELSE [Committing(e) EXCEPT !.s.state =
                         SetAt(@, Front(path), moduleName, e.s.modules[path].state)])

\* makeLocalContext(store, namespace, path): what the context closes over
makeLocalContext(namespace, path) == [namespace |-> namespace, path |-> path]

RECURSIVE installModule(_, _, _)
RECURSIVE forEachChild(_, _, _, _)
\* installModule(store, rootState, path, module, hot), the module being the
\* one at path and rootState the store's state
installModule(e, path, hot) ==
    LET module    == e.s.modules[path]
        isRoot    == path = << >>
        namespace == getNamespace(e.s.modules, path)
        e1 == IF module.namespaced
              THEN [e EXCEPT !.s.modulesNamespaceMap = (namespace :> path) @@ @]
              ELSE e
        e2 == IF ~isRoot /\ ~hot THEN installState(e1, path) ELSE e1
        local == makeLocalContext(namespace, path)
        e3 == forEachMutation([e2 EXCEPT !.s.modules[path].context = <<local>>],
                              namespace, local, module.mutations)
        e4 == forEachAction(e3, namespace, local, module.actions)
        e5 == forEachGetter(e4, namespace, local, module.getters)
    IN  IF e.threw THEN e
        ELSE IF e2.threw THEN e2
        ELSE forEachChild(e5, path, module.children, hot)

forEachChild(e, path, children, hot) ==
    IF e.threw \/ children = << >> THEN e
    ELSE forEachChild(installModule(e, path \o <<Head(children)>>, hot),
                      path, Tail(children), hot)

\* resetStoreState(store, state, hot): the state object stays the same one;
\* with hot set, the old reactive wrapper is cleared inside _withCommit
resetStoreState(e, hot) ==
    IF e.threw THEN e
    ELSE IF hot THEN withCommit(e, Committing(e))
    ELSE e

\* resetStore(store, hot), were it to install over the registries as they are
resetStoreKeepsRegistries(e, hot) ==
    IF e.threw THEN e
    ELSE resetStoreState(installModule(e, << >>, TRUE), hot)

\* resetStore(store, hot)
resetStore(e, hot) ==
    IF e.threw THEN e
    ELSE resetStoreState(
            installModule([e EXCEPT !.s.mutations = << >>,
                                    !.s.actions = << >>,
                                    !.s.wrappedGetters = << >>,
                                    !.s.modulesNamespaceMap = << >>],
                          << >>, TRUE),
            hot)

\* new Store(options)
construct(options) ==
    LET tree == register(<< >>, << >>, options, FALSE).tree
        e0   == [s |-> [modules |-> tree,
                        state |-> tree[<< >>].state,
                        mutations |-> << >>,
                        actions |-> << >>,
                        wrappedGetters |-> << >>,
                        modulesNamespaceMap |-> << >>,
                        committing |-> FALSE,
                        subscribers |-> << >>,
                        actionSubscribers |-> << >>],
                 threw |-> FALSE,
                 log   |-> << >>]
    IN  resetStoreState(installModule(e0, << >>, FALSE), FALSE)

\* registerModule(path, rawModule, {preserveState})
registerModule(e, path, rawModule, preserveState) ==
    LET r == register(e.s.modules, path, rawModule, TRUE)
    IN  IF r.threw THEN [e EXCEPT !.threw = TRUE]
        ELSE resetStoreState(
                installModule([e EXCEPT !.s.modules = r.tree], path, preserveState),
                FALSE)

\* the callback of unregisterModule
deleteState(e, path) ==
    LET parentState == getNestedState(e.s.state, Front(path))
    IN  IF parentState.threw \/ ~IsDefined(parentState.v) THEN [e EXCEPT !.threw = TRUE]
        ELSE [e EXCEPT !.s.state = DeleteAt(@, Front(path), Last(path))]

\* unregisterModule(path)
unregisterModule(e, path) ==
    LET r == unregister(e.s.modules, path)
    IN  IF r.threw THEN [e EXCEPT !.threw = TRUE]
        ELSE LET e0 == [e EXCEPT !.s.modules = r.tree]
             IN  resetStore(withCommit(e0, deleteState(Committing(e0), path)), FALSE)

\* hasModule(path): [threw, v]
hasModule(s, path) == isRegistered(s.modules, path)

\* hotUpdate(newOptions)
hotUpdate(e, newOptions) ==
    resetStore([e EXCEPT !.s.modules = update(@, << >>, newOptions)], TRUE)

\* replaceState(state)
replaceState(e, state) ==
    withCommit(e, [Committing(e) EXCEPT !.s.state = state])

\* ----------------------------------------------------- handlers (user code)
\* What the mutation handlers and the subscribers of the model do when they
\* are called.  A mutation handler is the strict-mode function
\*   function (state) { state.n++ }
\* except mNest, which commits inc between two increments, and mThrow, which
\* throws.

NaN == -1

MutationScript(h) ==
    IF h = "mNest" THEN <<"inc", "commit", "inc">>
    ELSE IF h = "mThrow" THEN <<"throw">>
    ELSE <<"inc">>

\* What a mutation subscriber does when it is notified: nothing (s1, s2),
\* unsubscribe itself (sUnsub), unsubscribe s2 (sKill), subscribe s2 (sAdd),
\* commit inc unless it is being told of inc (sCommit).
SubscriberScript(fn) ==
    CASE fn = "sUnsub"  -> "unsubscribe self"
      [] fn = "sKill"   -> "unsubscribe s2"
      [] fn = "sAdd"    -> "subscribe s2"
      [] fn = "sCommit" -> "commit inc"
      [] OTHER          -> "nothing"

\* An entry of the log of a call: what ran (k: "commit", "mutation", "applied",
\* "subscriber", "action"), for which commit of the call (cid) and type, who ran, the
\* committing flag at that moment and the value that was passed.
\* "applied" marks the return of _withCommit: its who is the subscriber list
\* and its v the state at that moment.
Event(k, cid, type, who, flag, v) ==
    [k |-> k, cid |-> cid, type |-> type, who |-> who, flag |-> flag, v |-> v]

Logged(e, ev) == [e EXCEPT !.log = Append(@, ev)]

\* state.n++ on the module's state
increment(e, path) ==
    LET state == getNestedState(e.s.state, path)
    IN  IF state.threw \/ ~IsObject(state.v) THEN [e EXCEPT !.threw = TRUE]
        ELSE LET n == IF HasProp(state.v, "n") THEN state.v[<<"n">>].val ELSE NaN
             IN  [e EXCEPT !.s.state =
                     SetAt(@, path, "n", Num(IF n = NaN THEN NaN ELSE n + 1))]

\* ------------------------------------------------------ genericSubscribe

\* genericSubscribe(fn, subs, options): the list after the call
genericSubscribe(fn, subs, prepend) ==
    IF IndexOf(subs, fn) = 0
    THEN IF prepend THEN <<fn>> \o subs ELSE Append(subs, fn)
    ELSE subs

\* the function genericSubscribe returns: the list after it is called
unsubscribe(fn, subs) ==
    LET i == IndexOf(subs, fn)
    IN  IF i > 0 THEN RemoveAt(subs, i) ELSE subs

\* typeof fn === 'function', for the action subscribers of the model: pBefore
\* is a plain function, the others are objects
IsFunction(fn) == fn = "pBefore"

\* subscribeAction(fn, options): the list after the call.  A function is
\* wrapped in a new object { before: fn } at each call, which indexOf finds in
\* no list, so it is added each time; the entry is named after the function.
subscribeAction(fn, subs, prepend) ==
    IF IsFunction(fn)
    THEN IF prepend THEN <<fn>> \o subs ELSE Append(subs, fn)
    ELSE genericSubscribe(fn, subs, prepend)

\* ------------------------------------------------------------------ commit

RECURSIVE commit(_, _, _)
RECURSIVE commitNotifiesFirst(_, _, _)
RECURSIVE commitUnknownNotifies(_, _, _)
RECURSIVE commitIterator(_, _, _, _)
RECURSIVE runMutation(_, _, _, _)
RECURSIVE notifySubscribers(_, _, _, _)

\* The body of a mutation handler, step by step.
runMutation(e, local, script, cid) ==
    IF e.threw \/ script = << >> THEN e
    ELSE LET step == Head(script)
             e1 == CASE step = "inc"    -> increment(e, local.path)
                      [] step = "commit" -> commit(e, "inc", "handler")
                      [] step = "throw"  -> [e EXCEPT !.threw = TRUE]
         IN  runMutation(e1, local, Tail(script), cid)

\* wrappedMutationHandler, were local.state the state the module was installed with
wrappedMutationHandlerInstalledState(e, entry, cid, type) ==
    IF entry.local.path \notin DOMAIN e.s.modules THEN [e EXCEPT !.threw = TRUE]
    ELSE runMutation(
            Logged(e, Event("mutation", cid, type, entry.h, e.s.committing,
                            e.s.modules[entry.local.path].state)),
            entry.local, MutationScript(entry.h), cid)

\* wrappedMutationHandler(payload): handler.call(store, local.state, payload),
\* local.state being getNestedState(store.state, path) at the time of the call
wrappedMutationHandler(e, entry, cid, type) ==
    LET state == getNestedState(e.s.state, entry.local.path)
    IN  IF state.threw THEN [e EXCEPT !.threw = TRUE]
        ELSE runMutation(
                Logged(e, Event("mutation", cid, type, entry.h, e.s.committing, state.v)),
                entry.local, MutationScript(entry.h), cid)

\* the loop over the handlers, were it to run from the last handler to the first
RECURSIVE commitIteratorReversed(_, _, _, _)
commitIteratorReversed(e, entry, cid, type) ==
    IF e.threw \/ entry = << >> THEN e
    ELSE commitIteratorReversed(wrappedMutationHandler(e, entry[Len(entry)], cid, type),
                                SubSeq(entry, 1, Len(entry) - 1), cid, type)

\* entry.forEach(function commitIterator (handler) { handler(payload) })
commitIterator(e, entry, cid, type) ==
    IF e.threw \/ entry = << >> THEN e
    ELSE commitIterator(wrappedMutationHandler(e, Head(entry), cid, type),
                        Tail(entry), cid, type)

\* sub(mutation, this.state), for a subscriber of the model
callSubscriber(e, fn, cid, type) ==
    LET e1 == Logged(e, Event("subscriber", cid, type, fn, e.s.committing, e.s.state))
        do == SubscriberScript(fn)
    IN  CASE do = "unsubscribe self" ->
                [e1 EXCEPT !.s.subscribers = unsubscribe(fn, @)]
          [] do = "unsubscribe s2" ->
                [e1 EXCEPT !.s.subscribers = unsubscribe("s2", @)]
          [] do = "subscribe s2" ->
                [e1 EXCEPT !.s.subscribers = genericSubscribe("s2", @, FALSE)]
          [] do = "commit inc" ->
                IF type = "inc" THEN e1 ELSE commit(e1, "inc", "subscriber")
          [] OTHER -> e1

\* this._subscribers.forEach(...) without the slice(): forEach visits the
\* indices below the length it started with, on the list as it is by then
RECURSIVE liveForEach(_, _, _, _, _)
liveForEach(e, i, len, cid, type) ==
    IF e.threw \/ i > len THEN e
    ELSE IF i > Len(e.s.subscribers) THEN e
    ELSE liveForEach(callSubscriber(e, e.s.subscribers[i], cid, type), i + 1, len, cid, type)

\* the notification, were it to walk the list itself, not a copy
notifySubscribersLive(e, subs, cid, type) == liveForEach(e, 1, Len(subs), cid, type)

\* this._subscribers.slice().forEach(sub => sub(mutation, this.state))
notifySubscribers(e, subs, cid, type) ==
    IF e.threw \/ subs = << >> THEN e
    ELSE notifySubscribers(callSubscriber(e, Head(subs), cid, type),
                           Tail(subs), cid, type)

\* commit(type), were it to notify the subscribers of a name it has no handler for
commitUnknownNotifies(e, type, by) ==
    IF e.threw THEN e
    ELSE IF type \notin DOMAIN e.s.mutations
    THEN notifySubscribers(e, e.s.subscribers, 1, type)
    ELSE LET cid   == 1 + Cardinality({i \in DOMAIN e.log : e.log[i].k = "commit"})
             entry == e.s.mutations[type]
             e0 == Logged(e, Event("commit", cid, type, by, e.s.committing, Undefined))
             e1 == withCommit(e0, commitIterator(Committing(e0), entry, cid, type))
         IN  IF e1.threw THEN e1
             ELSE notifySubscribers(
                     Logged(e1, Event("applied", cid, type, e1.s.subscribers, e1.s.committing, e1.s.state)),
                     e1.s.subscribers, cid, type)

\* commit(type), were it to notify the subscribers before it runs the handlers
commitNotifiesFirst(e, type, by) ==
    IF e.threw THEN e
    ELSE IF type \notin DOMAIN e.s.mutations THEN e
    ELSE LET cid   == 1 + Cardinality({i \in DOMAIN e.log : e.log[i].k = "commit"})
             entry == e.s.mutations[type]
             e0 == Logged(e, Event("commit", cid, type, by, e.s.committing, Undefined))
             e1 == notifySubscribers(e0, e0.s.subscribers, cid, type)
             e2 == withCommit(e1, commitIterator(Committing(e1), entry, cid, type))
         IN  IF e2.threw THEN e2
             ELSE Logged(e2, Event("applied", cid, type, e2.s.subscribers, e2.s.committing, e2.s.state))

\* commit(type): `by` says who called ("top", "handler", "subscriber", "action")
commit(e, type, by) ==
    IF e.threw THEN e
    ELSE IF type \notin DOMAIN e.s.mutations THEN e
    ELSE LET cid   == 1 + Cardinality({i \in DOMAIN e.log : e.log[i].k = "commit"})
             entry == e.s.mutations[type]
             e0 == Logged(e, Event("commit", cid, type, by, e.s.committing, Undefined))
             e1 == withCommit(e0, commitIterator(Committing(e0), entry, cid, type))
         IN  IF e1.threw THEN e1
             ELSE notifySubscribers(
                     Logged(e1, Event("applied", cid, type, e1.s.subscribers, e1.s.committing, e1.s.state)),
                     e1.s.subscribers, cid, type)

\* local.commit(type, payload, {root}), were it to ignore options.root
localCommitIgnoresRoot(e, local, type, root) ==
    IF local.namespace = "" THEN commit(e, type, "context")
    ELSE IF (local.namespace \o type) \notin DOMAIN e.s.mutations THEN e
    ELSE commit(e, local.namespace \o type, "context")

\* local.commit(type, payload, {root}) of makeLocalContext: store.commit when
\* the namespace is empty
localCommit(e, local, type, root) ==
    IF local.namespace = "" THEN commit(e, type, "context")
    ELSE IF ~root /\ (local.namespace \o type) \notin DOMAIN e.s.mutations THEN e
    ELSE commit(e, IF root THEN type ELSE local.namespace \o type, "context")

\* ---------------------------------------------------------------- dispatch
\* A call of dispatch that found handlers is a record:
\*   type      the action type
\*   handlers  one [h, st] per handler called, in call order: st is the
\*             state of the promise it returned ("pending", "resolved",
\*             "rejected")
\*   result    the promise `result`: [st, error, value]
\*   remaining the handlers whose fulfilment Promise.all has not yet seen
\*   done      whether the callback given to result.then has run
\*   st, error, value   the promise dispatch returned
\*   log       what ran for this dispatch, in order

\* What an action subscriber has for a phase ("before", "after", "error"):
\* "none" when it has no such function, else what the function does.
\* p1 and p2 do nothing in each phase, pThrow throws in each, pBefore is a
\* plain function, hence a before-subscriber.
ActionSubscriberPhase(sub, phase) ==
    CASE sub = "pThrow"  -> "throw"
      [] sub = "pBefore" -> IF phase = "before" THEN "nothing" ELSE "none"
      [] OTHER           -> "nothing"

DispatchEvent(k, who, error, threw) ==
    [k |-> k, who |-> who, error |-> error, threw |-> threw]

\* try { subs.filter(sub => sub[phase]).forEach(sub => sub[phase](...)) }
\* catch (e) { ... }: the log once the loop has ended
RECURSIVE callActionSubscribers(_, _, _, _)
callActionSubscribers(log, subs, phase, error) ==
    IF subs = << >> THEN log
    ELSE LET sub  == Head(subs)
             does == ActionSubscriberPhase(sub, phase)
         IN  IF does = "none"
             THEN callActionSubscribers(log, Tail(subs), phase, error)
             ELSE IF does = "throw"
             THEN Append(log, DispatchEvent(phase, sub, error, TRUE))
             ELSE callActionSubscribers(
                     Append(log, DispatchEvent(phase, sub, error, FALSE)),
                     Tail(subs), phase, error)

\* entry.map(handler => handler(payload)): the promises, all pending
RECURSIVE callActionHandlers(_)
callActionHandlers(entry) ==
    IF entry = << >> THEN << >>
    ELSE <<[h |-> Head(entry).h, st |-> "pending"]>>
            \o callActionHandlers(Tail(entry))

RECURSIVE handlerEvents(_)
handlerEvents(entry) ==
    IF entry = << >> THEN << >>
    ELSE <<DispatchEvent("handler", Head(entry).h, "", FALSE)>> \o handlerEvents(Tail(entry))

\* A promise rejected with the reason the handler h gives.
Rejected(h) == [st |-> "rejected", error |-> h, value |-> << >>]

\* Promise.all's reaction, were it to wait for every promise to settle before
\* it rejects
promiseAllWaits(D, i) ==
    LET remaining == D.remaining - 1
        failed    == {j \in DOMAIN D.handlers : D.handlers[j].st = "rejected"}
    IN  [D EXCEPT !.remaining = remaining,
                  !.result = IF remaining > 0 THEN @
                             ELSE IF failed # {} THEN Rejected(D.handlers[i].h)
                             ELSE [st |-> "resolved", error |-> "",
                                   value |-> [j \in DOMAIN D.handlers |-> D.handlers[j].h]]]

\* Promise.all(promises), its reaction to promise i of dispatch D having
\* settled: a rejection rejects `result` with that reason if it is still
\* pending, a fulfilment is counted, and the last one fulfils `result` with
\* the values in handler order (the handler names stand for reasons and values).
promiseAll(D, i) ==
    IF D.handlers[i].st = "rejected"
    THEN [D EXCEPT !.result = IF @.st = "pending" THEN Rejected(D.handlers[i].h) ELSE @]
    ELSE LET remaining == D.remaining - 1
         IN  [D EXCEPT !.remaining = remaining,
                       !.result = IF remaining = 0 /\ @.st = "pending"
                                  THEN [st |-> "resolved", error |-> "",
                                        value |-> [j \in DOMAIN D.handlers |-> D.handlers[j].h]]
                                  ELSE @]

\* entry[0](payload): with one handler `result` is the promise the handler
\* returned
handlerPromise(handler) ==
    [st    |-> handler.st,
     error |-> IF handler.st = "rejected" THEN handler.h ELSE "",
     value |-> IF handler.st = "resolved" THEN <<handler.h>> ELSE << >>]

\* A job of the microtask queue: Promise.all's reaction to handler i of
\* dispatch d ("react"), or the callback dispatch d gave to result.then ("then").
Job(k, d, i) == [k |-> k, d |-> d, i |-> i]

Pending == [st |-> "pending", error |-> "", value |-> << >>]

\* A call of dispatch that made no promise.
NoDispatch(threw, log) == [found |-> FALSE, threw |-> threw, d |-> << >>, log |-> log]

\* entry.map(handler => handler(payload)), up to the calls of the handlers:
\* wrappedActionHandler builds the context with state: local.state, which is
\* getNestedState(store.state, path) at the time of the call, and throws when
\* that does.  [threw, log], the log holding one "action" entry per handler
\* called, with the state it was given.
RECURSIVE wrappedActionHandlers(_, _, _)
wrappedActionHandlers(s, entry, type) ==
    IF entry = << >> THEN [threw |-> FALSE, log |-> << >>]
    ELSE LET state == getNestedState(s.state, Head(entry).local.path)
         IN  IF state.threw THEN [threw |-> TRUE, log |-> << >>]
             ELSE LET rest == wrappedActionHandlers(s, Tail(entry), type)
                  IN  [threw |-> rest.threw,
                       log   |-> <<Event("action", 0, type, Head(entry).h,
                                         s.committing, state.v)>> \o rest.log]

\* dispatch(type), up to its return: [found, threw, d, log]
dispatch(s, type) ==
    IF type \notin DOMAIN s.actions
    THEN NoDispatch(FALSE, << >>)
    ELSE LET entry  == s.actions[type]
             before == callActionSubscribers(<< >>, s.actionSubscribers, "before", "")
             called == wrappedActionHandlers(s, entry, type)
         IN  IF called.threw THEN NoDispatch(TRUE, called.log)
             ELSE
             [found |-> TRUE,
              threw |-> FALSE,
              log   |-> called.log,
              d |-> [type     |-> type,
                     handlers |-> callActionHandlers(entry),
                     result   |-> Pending,
                     remaining |-> Len(entry),
                     done     |-> FALSE,
                     st       |-> "pending",
                     error    |-> "",
                     value    |-> << >>,
                     log      |-> before \o handlerEvents(entry)]]

\* local.dispatch(type, payload, {root}) of makeLocalContext: store.dispatch
\* when the namespace is empty
localDispatch(s, local, type, root) ==
    IF local.namespace = "" THEN dispatch(s, type)
    ELSE IF ~root /\ (local.namespace \o type) \notin DOMAIN s.actions
    THEN NoDispatch(FALSE, << >>)
    ELSE dispatch(s, IF root THEN type ELSE local.namespace \o type)

\* The callbacks dispatch gives to result.then, run once result has settled.
dispatchThen(s, d) ==
    LET result == d.result
    IN  IF result.st = "resolved"
        THEN [d EXCEPT !.done  = TRUE,
                       !.st    = "resolved",
                       !.value = result.value,
                       !.log   = Append(
                                    callActionSubscribers(@, s.actionSubscribers, "after", ""),
                                    DispatchEvent("resolve", "", "", FALSE))]
        ELSE [d EXCEPT !.done  = TRUE,
                       !.st    = "rejected",
                       !.error = result.error,
                       !.log   = Append(
                                    callActionSubscribers(@, s.actionSubscribers, "error", result.error),
                                    DispatchEvent("reject", "", result.error, FALSE))]

\* ------------------------------------------------------------------ inputs
\* The module definitions, handlers and paths the behaviours are drawn from.

\* {n: 0}
Counter == (<< >> :> ObjNode) @@ (<<"n">> :> Leaf(0))

\* {n: 0, b: 7}: the root's own state has a plain property named like a module key
RootState == Counter @@ (<<"b">> :> Leaf(7))

\* A module definition whose handlers are named after tag: one mutation inc,
\* one action act, one getter cnt.
Def(tag, namespaced, modules) ==
    [namespaced |-> namespaced,
     state      |-> Counter,
     mutations  |-> << [key |-> "inc", h |-> "m" \o tag] >>,
     actions    |-> << [key |-> "act", h |-> "a" \o tag, root |-> FALSE] >>,
     getters    |-> << [key |-> "cnt", g |-> "g" \o tag] >>,
     modules    |-> modules]

\* The options of the store: the root declares inc, nest (a handler that
\* commits inc itself) and boom (a handler that throws), the static modules
\* are a and a/b.
Options(nsA, nsAB) ==
    [namespaced |-> FALSE,
     state      |-> RootState,
     mutations  |-> << [key |-> "inc",  h |-> "mR"],
                       [key |-> "nest", h |-> "mNest"],
                       [key |-> "boom", h |-> "mThrow"] >>,
     actions    |-> << [key |-> "act", h |-> "aR", root |-> FALSE] >>,
     getters    |-> << [key |-> "cnt", g |-> "gR"] >>,
     modules    |-> << [key |-> "a",
                        def |-> Def("A", nsA, << [key |-> "b", def |-> Def("AB", nsAB, << >>)] >>)] >>]

\* The definitions registerModule is called with: X, and the namespaced Y
\* with a child b and an action flagged root.
RuntimeDefs ==
    {Def("X", FALSE, << >>),
     [Def("Y", TRUE, << [key |-> "b", def |-> Def("YB", FALSE, << >>)] >>)
        EXCEPT !.actions = Append(@, [key |-> "glob", h |-> "aYglob", root |-> TRUE])]}

\* The paths registerModule is called with.
RegisterPaths == {<<"a">>, <<"b">>, <<"a", "a">>, <<"b", "a">>}

\* The paths unregisterModule and hasModule are called with.
QueryPaths == RegisterPaths \cup {<<"a", "b">>, <<"b", "a", "b">>}

\* The namespaced flag of the module at path, FALSE when there is none.
FlagAt(tree, path) == IF path \in DOMAIN tree THEN tree[path].namespaced ELSE FALSE

\* The definitions hotUpdate is called with: new handlers for the root and a
\* (and for a/b), with and without a child key c the tree does not have.
HotOptions(tree) ==
    LET a2(kids) == [key |-> "a", def |-> Def("A2", FlagAt(tree, <<"a">>), kids)]
        ab2      == [key |-> "b", def |-> Def("AB2", FlagAt(tree, <<"a", "b">>), << >>)]
        c2       == [key |-> "c", def |-> Def("C2", FALSE, << >>)]
        root(kids) == [Def("R2", FlagAt(tree, << >>), kids) EXCEPT !.state = RootState]
    IN  {root(<< a2(<< >>) >>), root(<< a2(<< ab2 >>), c2 >>), root(<< c2, a2(<< >>) >>)}

\* The states replaceState is called with.
ReplaceStates ==
    {(<< >> :> ObjNode) @@ (<<"n">> :> Leaf(5)) @@ (<<"a">> :> ObjNode) @@ (<<"a", "n">> :> Leaf(3)),
     (<< >> :> ObjNode) @@ (<<"n">> :> Leaf(4))}

\* --------------------------------------------------------------- variables

VARIABLES
    store,       \* the Store
    dispatches,  \* the calls of dispatch that found handlers, in call order
    last,        \* the last call made on the store: what it was and how it ended
    calls,       \* the number of calls made so far
    jobs         \* the microtask queue: the promise reactions not yet run, in order

vars == <<store, dispatches, last, calls, jobs>>

Exec(s) == [s |-> s, threw |-> FALSE, log |-> << >>]

NoCall ==
    [op |-> "new", prev |-> [op |-> "", path |-> << >>, type |-> "", threw |-> FALSE],
     path |-> << >>, type |-> "", root |-> FALSE, threw |-> FALSE, ret |-> 0, log |-> << >>]

\* op is the method called, path and type its arguments, threw whether it
\* ended by throwing, log what commit ran or which action handlers dispatch
\* called.
\* ret: 1 for true, 0 for false or undefined; for dispatch, the number of the
\* call in dispatches
\* prev is the call made before this one; root is options.root of a call
\* made through a module's context.
Call(op, path, type, threw, ret) ==
    [op |-> op,
     prev |-> [op |-> last.op, path |-> last.path, type |-> last.type, threw |-> last.threw],
     path |-> path, type |-> type, root |-> FALSE, threw |-> threw, ret |-> ret,
     log |-> << >>]

\* The store after new Store(options), the plugins having subscribed subs
\* and asubs.
Constructed(nsA, nsAB, subs, asubs) ==
    [construct(Options(nsA, nsAB)).s EXCEPT !.subscribers = subs,
                                           !.actionSubscribers = asubs]

RegisterModule(path, rawModule, preserveState) ==
    LET r == registerModule(Exec(store), path, rawModule, preserveState)
    IN  /\ calls < MaxCalls
        /\ store' = r.s
        /\ last' = Call("registerModule", path, "", r.threw, 0)
        /\ calls' = calls + 1
        /\ UNCHANGED <<dispatches, jobs>>

UnregisterModule(path) ==
    LET r == unregisterModule(Exec(store), path)
    IN  /\ calls < MaxCalls
        /\ store' = r.s
        /\ last' = Call("unregisterModule", path, "", r.threw, 0)
        /\ calls' = calls + 1
        /\ UNCHANGED <<dispatches, jobs>>

HasModule(path) ==
    LET r == hasModule(store, path)
    IN  /\ calls < MaxCalls
        /\ last' = Call("hasModule", path, "", r.threw, IF r.v THEN 1 ELSE 0)
        /\ calls' = calls + 1
        /\ UNCHANGED <<store, dispatches, jobs>>

HotUpdate(newOptions) ==
    LET r == hotUpdate(Exec(store), newOptions)
    IN  /\ calls < MaxCalls
        /\ store' = r.s
        /\ last' = Call("hotUpdate", << >>, "", r.threw, 0)
        /\ calls' = calls + 1
        /\ UNCHANGED <<dispatches, jobs>>

ReplaceState(state) ==
    LET r == replaceState(Exec(store), state)
    IN  /\ calls < MaxCalls
        /\ store' = r.s
        /\ last' = Call("replaceState", << >>, "", r.threw, 0)
        /\ calls' = calls + 1
        /\ UNCHANGED <<dispatches, jobs>>

Subscribe(fn, prepend) ==
    /\ calls < MaxCalls
    /\ store' = [store EXCEPT !.subscribers = genericSubscribe(fn, @, prepend)]
    /\ last' = Call("subscribe", << >>, fn, FALSE, 0)
    /\ calls' = calls + 1
    /\ UNCHANGED <<dispatches, jobs>>

\* A call of the function an earlier subscribe(fn) returned.
Unsubscribe(fn) ==
    /\ calls < MaxCalls
    /\ fn \in Range(store.subscribers)
    /\ store' = [store EXCEPT !.subscribers = unsubscribe(fn, @)]
    /\ last' = Call("unsubscribe", << >>, fn, FALSE, 0)
    /\ calls' = calls + 1
    /\ UNCHANGED <<dispatches, jobs>>

Commit(type) ==
    LET r == commit(Exec(store), type, "top")
    IN  /\ calls < MaxCalls
        /\ store' = r.s
        /\ last' = [Call("commit", << >>, type, r.threw, 0) EXCEPT !.log = r.log]
        /\ calls' = calls + 1
        /\ UNCHANGED <<dispatches, jobs>>

SubscribeAction(fn, prepend) ==
    /\ calls < MaxCalls
    /\ store' = [store EXCEPT !.actionSubscribers = subscribeAction(fn, @, prepend)]
    /\ last' = Call("subscribeAction", << >>, fn, FALSE, 0)
    /\ calls' = calls + 1
    /\ UNCHANGED <<dispatches, jobs>>

\* A call of the function an earlier subscribeAction(fn) returned: it removes
\* the entry that call added, the i-th of the list.
UnsubscribeAction(fn) ==
    /\ calls < MaxCalls
    /\ \E i \in DOMAIN store.actionSubscribers :
          /\ store.actionSubscribers[i] = fn
          /\ store' = [store EXCEPT !.actionSubscribers = RemoveAt(@, i)]
    /\ last' = Call("unsubscribeAction", << >>, fn, FALSE, 0)
    /\ calls' = calls + 1
    /\ UNCHANGED <<dispatches, jobs>>

Dispatch(type) ==
    LET r == dispatch(store, type)
    IN  /\ calls < MaxCalls
        /\ Len(dispatches) < MaxDispatches
        /\ dispatches' = IF r.found THEN Append(dispatches, r.d) ELSE dispatches
        /\ last' = [Call("dispatch", << >>, type, r.threw,
                          IF r.found THEN Len(dispatches) + 1 ELSE 0)
                       EXCEPT !.log = r.log]
        /\ calls' = calls + 1
        /\ UNCHANGED <<store, jobs>>

\* context.commit(type, null, {root}) called on the context of the module at
\* path, as an action handler of that module does once it has been resumed.
LocalCommit(path, type, root) ==
    /\ calls < MaxCalls
    /\ path \in DOMAIN store.modules
    /\ store.modules[path].context # << >>
    /\ LET r == localCommit(Exec(store), store.modules[path].context[1], type, root)
       IN  /\ store' = r.s
           /\ last' = [Call("localCommit", path, type, r.threw, 0)
                          EXCEPT !.root = root, !.log = r.log]
    /\ calls' = calls + 1
    /\ UNCHANGED <<dispatches, jobs>>

\* context.dispatch(type, null, {root}) called on the context of the module
\* at path.
LocalDispatch(path, type, root) ==
    /\ calls < MaxCalls
    /\ Len(dispatches) < MaxDispatches
    /\ path \in DOMAIN store.modules
    /\ store.modules[path].context # << >>
    /\ LET r == localDispatch(store, store.modules[path].context[1], type, root)
       IN  /\ dispatches' = IF r.found THEN Append(dispatches, r.d) ELSE dispatches
           /\ last' = [Call("localDispatch", path, type, r.threw,
                             IF r.found THEN Len(dispatches) + 1 ELSE 0)
                          EXCEPT !.root = root, !.log = r.log]
    /\ calls' = calls + 1
    /\ UNCHANGED <<store, jobs>>

\* The promise that handler i of dispatch d returned settles: the reaction
\* registered on it is queued.  With several handlers that is Promise.all's;
\* with one handler the promise is `result` itself and the reaction is the
\* callback dispatch gave to result.then.
SettleHandler(d, i, outcome) ==
    /\ dispatches[d].handlers[i].st = "pending"
    /\ LET handlers == [dispatches[d].handlers EXCEPT ![i].st = outcome]
       IN  IF Len(handlers) > 1
           THEN /\ dispatches' = [dispatches EXCEPT ![d].handlers = handlers]
                /\ jobs' = Append(jobs, Job("react", d, i))
           ELSE /\ dispatches' = [dispatches EXCEPT ![d].handlers = handlers,
                                                    ![d].result = handlerPromise(handlers[1])]
                /\ jobs' = Append(jobs, Job("then", d, 0))
    /\ UNCHANGED <<store, last, calls>>

\* The first job of the queue runs, Promise.all's reaction to handler i of
\* dispatch d: when it settles `result`, the callback given to result.then is
\* queued.
PromiseAllReaction(d, i) ==
    /\ jobs # << >>
    /\ Head(jobs) = Job("react", d, i)
    /\ LET D == promiseAll(dispatches[d], i)
       IN  /\ dispatches' = [dispatches EXCEPT ![d] = D]
           /\ jobs' = IF dispatches[d].result.st = "pending" /\ D.result.st # "pending"
                      THEN Append(Tail(jobs), Job("then", d, 0))
                      ELSE Tail(jobs)
    /\ UNCHANGED <<store, last, calls>>

\* The first job of the queue runs, the callback dispatch d gave to
\* result.then.
Complete(d) ==
    /\ jobs # << >>
    /\ Head(jobs) = Job("then", d, 0)
    /\ dispatches' = [dispatches EXCEPT ![d] = dispatchThen(store, @)]
    /\ jobs' = Tail(jobs)
    /\ UNCHANGED <<store, last, calls>>

\* ------------------------------------------------- the module tree's calls

Init ==
    /\ \E nsA \in BOOLEAN, nsAB \in BOOLEAN : store = Constructed(nsA, nsAB, << >>, << >>)
    /\ dispatches = << >>
    /\ jobs = << >>
    /\ last = NoCall
    /\ calls = 0

Next ==
    \/ \E path \in RegisterPaths, rawModule \in RuntimeDefs, preserveState \in BOOLEAN :
          RegisterModule(path, rawModule, preserveState)
    \/ \E path \in QueryPaths : UnregisterModule(path)
    \/ \E path \in QueryPaths : HasModule(path)
    \/ \E newOptions \in HotOptions(store.modules) : HotUpdate(newOptions)
    \/ \E state \in ReplaceStates : ReplaceState(state)

Spec == Init /\ [][Next]_vars

\* ------------------------------------------------------- commit's calls

\* The mutation subscribers of the model.
Subscribers == {"s1", "s2", "sUnsub", "sKill", "sAdd", "sCommit"}

\* The names commit is called with: the registered ones and one that is not.
CommitTypes == DOMAIN store.mutations \cup {"nope"}

InitCommit ==
    /\ \E nsA \in BOOLEAN, nsAB \in BOOLEAN, subs \in {<< >>, <<"s1", "s2">>} :
          store = Constructed(nsA, nsAB, subs, << >>)
    /\ dispatches = << >>
    /\ jobs = << >>
    /\ last = NoCall
    /\ calls = 0

NextCommit ==
    \/ \E fn \in Subscribers, prepend \in BOOLEAN : Subscribe(fn, prepend)
    \/ \E fn \in Subscribers : Unsubscribe(fn)
    \/ \E type \in CommitTypes : Commit(type)
    \/ \E newOptions \in HotOptions(store.modules) : HotUpdate(newOptions)

SpecCommit == InitCommit /\ [][NextCommit]_vars

\* ------------------------------------------------------ dispatch's calls

\* The action subscribers of the model.
ActionSubscribers == {"p1", "p2", "pThrow", "pBefore"}

\* The names dispatch is called with: the registered ones and one that is not.
DispatchTypes == DOMAIN store.actions \cup {"nope"}

InitDispatch ==
    /\ \E nsA \in BOOLEAN, asubs \in {<< >>, <<"p1", "p2">>} :
          store = Constructed(nsA, TRUE, <<"s1">>, asubs)
    /\ dispatches = << >>
    /\ jobs = << >>
    /\ last = NoCall
    /\ calls = 0

NextDispatch ==
    \/ \E fn \in ActionSubscribers, prepend \in BOOLEAN : SubscribeAction(fn, prepend)
    \/ \E fn \in ActionSubscribers : UnsubscribeAction(fn)
    \/ \E type \in DispatchTypes : Dispatch(type)
    \/ \E d \in DOMAIN dispatches :
          \E i \in DOMAIN dispatches[d].handlers, outcome \in {"resolved", "rejected"} :
             SettleHandler(d, i, outcome)
    \/ \E d \in DOMAIN dispatches :
          \E i \in DOMAIN dispatches[d].handlers : PromiseAllReaction(d, i)
    \/ \E d \in DOMAIN dispatches : Complete(d)

SpecDispatch == InitDispatch /\ [][NextDispatch]_vars

\* ------------------------------------------- the promises of dispatch

\* Dispatches on a store whose action subscribers stay as the plugins left
\* them: act has the handlers of the root and of a, b/act the one of a/b.
InitSettle ==
    /\ store = Constructed(FALSE, TRUE, <<"s1">>, <<"p1", "p2">>)
    /\ dispatches = << >>
    /\ jobs = << >>
    /\ last = NoCall
    /\ calls = 0

NextSettle ==
    \/ \E type \in DOMAIN store.actions : Dispatch(type)
    \/ \E d \in DOMAIN dispatches :
          \E i \in DOMAIN dispatches[d].handlers, outcome \in {"resolved", "rejected"} :
             SettleHandler(d, i, outcome)
    \/ \E d \in DOMAIN dispatches :
          \E i \in DOMAIN dispatches[d].handlers : PromiseAllReaction(d, i)
    \/ \E d \in DOMAIN dispatches : Complete(d)

SpecSettle == InitSettle /\ [][NextSettle]_vars

\* ------------------------------------------- calls through a context

\* The paths of the modules whose context is called.
LocalPaths == QueryPaths \cup {<< >>}

\* The names the contexts' commit and dispatch are called with.
LocalCommitTypes == {"inc", "nope"}

\* glob is registered once Y is
LocalDispatchTypes == {"act", "glob"}

InitLocal ==
    /\ \E nsA \in BOOLEAN, nsAB \in BOOLEAN : store = Constructed(nsA, nsAB, <<"s1">>, <<"p1">>)
    /\ dispatches = << >>
    /\ jobs = << >>
    /\ last = NoCall
    /\ calls = 0

NextLocal ==
    \/ \E path \in {<<"b">>, <<"a", "a">>}, rawModule \in RuntimeDefs :
          RegisterModule(path, rawModule, FALSE)
    \/ \E path \in LocalPaths, type \in LocalCommitTypes, root \in BOOLEAN :
          LocalCommit(path, type, root)
    \/ \E path \in LocalPaths, type \in LocalDispatchTypes, root \in BOOLEAN :
          LocalDispatch(path, type, root)

SpecLocal == InitLocal /\ [][NextLocal]_vars

\* ------------------------------------- handlers on a replaced state

\* The states replaceState is called with here: those of ReplaceStates, which
\* lack the slot of a module, and one that has a slot for every static module.
ReplacedStates ==
    ReplaceStates \cup
    {(<< >> :> ObjNode) @@ (<<"n">> :> Leaf(6)) @@ (<<"a">> :> ObjNode)
        @@ (<<"a", "n">> :> Leaf(3)) @@ (<<"a", "b">> :> ObjNode)
        @@ (<<"a", "b", "n">> :> Leaf(9))}

InitState ==
    /\ \E nsA \in BOOLEAN, nsAB \in BOOLEAN : store = Constructed(nsA, nsAB, <<"s1">>, <<"p1">>)
    /\ dispatches = << >>
    /\ jobs = << >>
    /\ last = NoCall
    /\ calls = 0

NextState ==
    \/ \E state \in ReplacedStates : ReplaceState(state)
    \/ \E rawModule \in RuntimeDefs, preserveState \in BOOLEAN :
          RegisterModule(<<"b">>, rawModule, preserveState)
    \/ \E type \in CommitTypes : Commit(type)
    \/ \E type \in DispatchTypes : Dispatch(type)

SpecState == InitState /\ [][NextState]_vars

\* ------------------------------------------------------------------ claims

\* A module declared at construction is registered at path.
StaticAt(s, path) == isRegistered(s.modules, path).v /\ ~s.modules[path].runtime

\* The composed state has a slot at path.
SlotAt(s, path) == path \in DOMAIN s.state

\* C1: unregisterModule(path) on a module declared at construction changes
\* nothing: hasModule(path) is still true and the composed state is the same
\* as before the call.
C1_StaticUnregisterNoOp ==
    [][\A path \in QueryPaths :
          (UnregisterModule(path) /\ StaticAt(store, path))
              => (hasModule(store', path).v /\ store'.state = store.state)]_vars

\* The parent of path is registered.
ParentRegistered(s, path) ==
    LET parent == get(s.modules, Front(path)) IN ~parent.threw /\ parent.def

\* The parent's state is an object of the composed state.
ParentStateIsObject(s, path) ==
    LET parentState == getNestedState(s.state, Front(path))
    IN  ~parentState.threw /\ IsObject(parentState.v)

\* C2, as claimed: for a path that is not registered and whose parent is,
\* after registerModule(path, def) hasModule(path) is true and the state has a
\* slot at path; after a following unregisterModule(path) hasModule(path) is
\* false and the slot is gone.
C2_RegisterThenUnregister ==
    [][\A path \in RegisterPaths :
          /\ ( /\ ~isRegistered(store.modules, path).v
               /\ ParentRegistered(store, path)
               /\ last'.op = "registerModule" /\ last'.path = path
               /\ \E def \in RuntimeDefs : RegisterModule(path, def, FALSE) )
                => (hasModule(store', path).v /\ SlotAt(store', path))
          /\ ( /\ last.op = "registerModule" /\ last.path = path
               /\ last'.op = "unregisterModule" /\ last'.path = path
               /\ UnregisterModule(path) )
                => (~hasModule(store', path).v /\ ~SlotAt(store', path))]_vars

\* C2, amended: the same, for a path whose parent's state is an object of the
\* composed state; both calls then return normally.
C2_RegisterThenUnregisterWithParentState ==
    [][\A path \in RegisterPaths :
          /\ ( /\ ~isRegistered(store.modules, path).v
               /\ ParentRegistered(store, path)
               /\ ParentStateIsObject(store, path)
               /\ last'.op = "registerModule" /\ last'.path = path
               /\ \E def \in RuntimeDefs : RegisterModule(path, def, FALSE) )
                => (~last'.threw /\ hasModule(store', path).v /\ SlotAt(store', path))
          /\ ( /\ last.op = "registerModule" /\ last.path = path /\ ~last.threw
               /\ SlotAt(store, path)
               /\ last'.op = "unregisterModule" /\ last'.path = path
               /\ UnregisterModule(path) )
                => (~last'.threw /\ ~hasModule(store', path).v /\ ~SlotAt(store', path))]_vars

\* b was registered by the first call and unregistered by the second.
C2_Witness ==
    /\ calls = 2
    /\ last.op = "unregisterModule" /\ last.path = <<"b">> /\ ~last.threw
    /\ last.prev.op = "registerModule" /\ last.prev.path = <<"b">> /\ ~last.prev.threw
    /\ ~hasModule(store, <<"b">>).v
    /\ ~SlotAt(store, <<"b">>)

\* key + "/" for each namespaced module along path, from its i-th key on
RECURSIVE NamespaceAlong(_, _, _)
NamespaceAlong(tree, path, i) ==
    IF i > Len(path) THEN ""
    ELSE (IF tree[SubSeq(path, 1, i)].namespaced THEN path[i] \o "/" ELSE "")
            \o NamespaceAlong(tree, path, i + 1)

\* C7: for every registered path, getNamespace(path) is the concatenation, in
\* path order, of key + "/" for exactly the namespaced modules along the path.
C7_Namespace ==
    \A path \in DOMAIN store.modules :
        getNamespace(store.modules, path) = NamespaceAlong(store.modules, path, 1)

\* A module registered at run time under a namespaced parent, itself not
\* namespaced: its namespace is the parent's key and a slash, and the
\* installation recorded the parent under it.
C7_Witness ==
    /\ last.op = "registerModule" /\ ~last.threw
    /\ \E path \in DOMAIN store.modules :
          /\ path = last.path \o <<"b">>
          /\ store.modules[Front(path)].namespaced
          /\ ~store.modules[path].namespaced
          /\ getNamespace(store.modules, path) = NamespaceAlong(store.modules, Front(path), 1)
          /\ getNamespace(store.modules, path) # ""
          /\ getNamespace(store.modules, path) \in DOMAIN store.modulesNamespaceMap
          /\ store.modulesNamespaceMap[getNamespace(store.modules, path)] = Front(path)

\* ---- the log of a call

Cids(log) == {log[i].cid : i \in DOMAIN log}

\* the entries of kind k of commit cid, in order
Events(log, k, cid) == SelectSeq(log, LAMBDA ev : ev.k = k /\ ev.cid = cid)

Whos(events) == [i \in DOMAIN events |-> events[i].who]

\* where commit cid's entry of kind k is ("commit" and "applied" occur once)
At(log, k, cid) == CHOOSE i \in DOMAIN log : log[i].k = k /\ log[i].cid = cid

Positions(log, k, cid) == {i \in DOMAIN log : log[i].k = k /\ log[i].cid = cid}

Handlers(entry) == [i \in DOMAIN entry |-> entry[i].h]

\* C3: one commit of a name with two or more handlers invokes each of them
\* once, in the order of registration, and all of them before any mutation
\* subscriber is notified of that commit.
C3_FanOut ==
    last.op = "commit" =>
        \A c \in Cids(last.log) :
            LET type  == last.log[At(last.log, "commit", c)].type
                entry == store.mutations[type]
            IN  Len(entry) >= 2 =>
                    /\ Whos(Events(last.log, "mutation", c)) = Handlers(entry)
                    /\ \A i \in Positions(last.log, "mutation", c),
                          j \in Positions(last.log, "subscriber", c) : i < j

\* A commit ran two handlers or more and then notified subscribers.
C3_Witness ==
    /\ last.op = "commit"
    /\ \E c \in Cids(last.log) :
          /\ Len(Events(last.log, "mutation", c)) >= 2
          /\ Len(Events(last.log, "subscriber", c)) >= 2

\* The handler h is declared for the mutation `type` by a module of the tree.
DeclaredMutation(tree, h, type) ==
    \E path \in DOMAIN tree : \E i \in DOMAIN tree[path].mutations :
        /\ tree[path].mutations[i].h = h
        /\ getNamespace(tree, path) \o tree[path].mutations[i].key = type

\* C5: hotUpdate leaves the composed state and the list of mutation
\* subscribers as they are; the commit that follows runs the handlers the
\* modules now declare for the name, none that was replaced, and then
\* notifies the subscribers that were subscribed before the hot update.
C5_HotUpdate ==
    [][/\ \A newOptions \in HotOptions(store.modules) :
             HotUpdate(newOptions)
                => (store'.state = store.state /\ store'.subscribers = store.subscribers)
       /\ \A type \in CommitTypes :
             (last.op = "hotUpdate" /\ Commit(type) /\ type \in DOMAIN store.mutations)
                => /\ Whos(Events(last'.log, "mutation", 1)) = Handlers(store.mutations[type])
                   /\ \A i \in DOMAIN last'.log :
                         last'.log[i].k = "mutation"
                            => DeclaredMutation(store.modules, last'.log[i].who, last'.log[i].type)
                   /\ Whos(Events(last'.log, "subscriber", 1)) = store.subscribers]_vars

\* inc was committed, the definitions were hot-updated, inc was committed
\* again: the new handler ran on the state the first commit left, and the
\* subscribers were told.
C5_Witness ==
    /\ calls = 3
    /\ last.op = "commit" /\ last.type = "inc" /\ last.prev.op = "hotUpdate"
    /\ Whos(Events(last.log, "mutation", 1))[1] = "mR2"
    /\ Whos(Events(last.log, "subscriber", 1)) = <<"s1", "s2">>
    /\ NumAt(store.state, << >>, "n") = 2

\* C6: when a handler of commit A calls commit B, the handlers of B run inside
\* A's handler, B's subscribers are notified once B's handlers are done and
\* before A's are, each with the state as B left it, and A's subscribers are
\* notified once A's handlers are done, with the state as A left it (as long
\* as no further mutation has run since).
C6_NestedCommit ==
    (last.op = "commit" /\ ~last.threw) =>
        LET log == last.log
            NoMutationBetween(i, j) == \A m \in (i + 1)..(j - 1) : log[m].k # "mutation"
            Snapshots(c) ==
                \A j \in Positions(log, "subscriber", c) :
                    /\ At(log, "applied", c) < j
                    /\ NoMutationBetween(At(log, "applied", c), j)
                          => log[j].v = log[At(log, "applied", c)].v
        IN  \A b \in Cids(log) :
                log[At(log, "commit", b)].who = "handler" =>
                    \E a \in Cids(log) :
                        /\ At(log, "commit", a) < At(log, "commit", b)
                        /\ At(log, "applied", b) < At(log, "applied", a)
                        /\ \E i \in Positions(log, "mutation", a) : i < At(log, "commit", b)
                        /\ Positions(log, "mutation", b) # {}
                        /\ \A i \in Positions(log, "mutation", b) :
                              At(log, "commit", b) < i /\ i < At(log, "applied", b)
                        /\ \A j \in Positions(log, "subscriber", b) : j < At(log, "applied", a)
                        /\ Snapshots(b)
                        /\ Snapshots(a)

\* nest was committed with s1 and s2 subscribed: its handler committed inc,
\* and the subscribers saw one state for inc and another, later one for nest.
C6_Witness ==
    /\ last.op = "commit" /\ last.type = "nest" /\ ~last.threw
    /\ Whos(Events(last.log, "subscriber", 1)) = <<"s1", "s2">>
    /\ Whos(Events(last.log, "subscriber", 2)) = <<"s1", "s2">>
    /\ \A j \in Positions(last.log, "subscriber", 2) :
          /\ last.log[j].type = "inc"
          /\ last.log[j].v = last.log[At(last.log, "applied", 2)].v
          /\ last.log[j].v # last.log[At(last.log, "applied", 1)].v
    /\ \A j \in Positions(last.log, "subscriber", 1) :
          /\ last.log[j].type = "nest"
          /\ last.log[j].v = last.log[At(last.log, "applied", 1)].v
          /\ last.log[j].v = store.state

\* ---- the log of a dispatch

\* the entries of kind k, in order
Phase(log, k) == SelectSeq(log, LAMBDA ev : ev.k = k)

\* the subscribers that have a function for the phase, in list order
With(subs, phase) == SelectSeq(subs, LAMBDA sub : ActionSubscriberPhase(sub, phase) # "none")

\* C4: a dispatch on a name with several handlers starts all of them; the
\* promise it returns resolves only once all have resolved, with their values;
\* when one rejects, Promise.all's reaction to it rejects `result` with that
\* handler's reason, the others still pending or not, and the promise dispatch
\* returns rejects with it and delivers no value.
C4_DispatchAll ==
    [][/\ \A d \in DOMAIN dispatches' :
             LET D == dispatches'[d]
             IN  Len(D.handlers) > 1 =>
                    /\ Whos(Phase(D.log, "handler")) = Handlers(D.handlers)
                    /\ D.st = "resolved"
                          => /\ \A i \in DOMAIN D.handlers : D.handlers[i].st = "resolved"
                             /\ D.value = Handlers(D.handlers)
                    /\ D.st = "rejected"
                          => /\ \E i \in DOMAIN D.handlers :
                                    D.handlers[i].st = "rejected" /\ D.error = D.handlers[i].h
                             /\ D.value = << >>
                    /\ ( /\ \E i \in DOMAIN D.handlers : D.handlers[i].st = "rejected"
                         /\ \A n \in DOMAIN jobs' : ~(jobs'[n].k = "react" /\ jobs'[n].d = d) )
                          => D.result.st = "rejected"
                    /\ D.done => (D.st = D.result.st /\ D.error = D.result.error)
       /\ \A d \in DOMAIN dispatches : \A i \in DOMAIN dispatches[d].handlers :
             ( /\ PromiseAllReaction(d, i)
               /\ dispatches[d].handlers[i].st = "rejected"
               /\ dispatches[d].result.st = "pending" )
                => ( /\ dispatches'[d].result.st = "rejected"
                     /\ dispatches'[d].result.error = dispatches[d].handlers[i].h )]_vars

\* A dispatch with two handlers was rejected with the reason of the one that
\* rejected, while the other was still pending.
C4_Witness ==
    \E d \in DOMAIN dispatches :
        LET D == dispatches[d]
        IN  /\ Len(D.handlers) = 2
            /\ D.done /\ D.st = "rejected"
            /\ \E i, j \in DOMAIN D.handlers :
                  /\ D.handlers[i].st = "rejected" /\ D.error = D.handlers[i].h
                  /\ D.handlers[j].st = "pending"

\* The call changed nothing and returned undefined.
NoOp ==
    /\ store' = store
    /\ dispatches' = dispatches
    /\ jobs' = jobs
    /\ last'.log = << >>
    /\ ~last'.threw
    /\ last'.ret = 0

\* C8: commit or dispatch of a name that has no entry in the registry returns
\* undefined and is a no-op: no handler runs, no subscriber is invoked, the
\* state is unchanged.
C8_UnknownTypeNoOp ==
    [][/\ \A type \in {"inc", "nope"} :
             (Commit(type) /\ type \notin DOMAIN store.mutations) => NoOp
       /\ \A type \in DispatchTypes :
             (Dispatch(type) /\ type \notin DOMAIN store.actions) => NoOp]_vars

\* nope was dispatched and then committed on a store that has subscribers of
\* both kinds: nothing ran.
C8_Witness ==
    /\ calls = 2
    /\ last.op = "commit" /\ last.type = "nope" /\ last.log = << >>
    /\ last.prev.op = "dispatch" /\ last.prev.type = "nope"
    /\ dispatches = << >>
    /\ jobs = << >>
    /\ store.subscribers # << >>
    /\ store.actionSubscribers # << >>

\* C9: an exception thrown by an action subscriber in the before, after or
\* error phase is caught individually: the dispatch still calls its handlers
\* and settles with their outcome, and every other subscriber of that phase
\* is still invoked.
C9_SubscriberErrorsIsolated ==
    [][/\ \A type \in DispatchTypes :
             (Dispatch(type) /\ type \in DOMAIN store.actions)
                => LET D == dispatches'[Len(dispatches')]
                   IN  /\ Whos(Phase(D.log, "before")) = With(store.actionSubscribers, "before")
                       /\ Whos(Phase(D.log, "handler")) = Handlers(store.actions[type])
       /\ \A d \in DOMAIN dispatches :
             Complete(d)
                => LET D == dispatches'[d]
                   IN  /\ D.st = dispatches[d].result.st
                       /\ D.st = "resolved"
                             => Whos(Phase(D.log, "after")) = With(store.actionSubscribers, "after")
                       /\ D.st = "rejected"
                             => Whos(Phase(D.log, "error")) = With(store.actionSubscribers, "error")]_vars

\* the positions of the entries of kind k
Places(log, k) == {i \in DOMAIN log : log[i].k = k}

\* C10: for every dispatch of a registered name, all before-subscribers run
\* before any handler is called; then, if the handlers succeed, the
\* after-subscribers run and the returned promise resolves, and no
\* error-subscriber runs; if a handler fails, the error-subscribers run with
\* that error before the returned promise rejects with it, and no
\* after-subscriber runs.
C10_DispatchPhases ==
    [][/\ \A type \in DispatchTypes :
             (Dispatch(type) /\ type \in DOMAIN store.actions)
                => LET D == dispatches'[Len(dispatches')]
                   IN  /\ Whos(Phase(D.log, "before")) = With(store.actionSubscribers, "before")
                       /\ \A i \in Places(D.log, "before"), j \in Places(D.log, "handler") : i < j
       /\ \A d \in DOMAIN dispatches :
             Complete(d)
                => LET D == dispatches'[d]
                   IN  /\ dispatches[d].result.st = "resolved"
                             => /\ Whos(Phase(D.log, "after")) = With(store.actionSubscribers, "after")
                                /\ D.st = "resolved"
                                /\ Places(D.log, "error") = {}
                                /\ \A i \in Places(D.log, "after"), j \in Places(D.log, "resolve") : i < j
                       /\ dispatches[d].result.st = "rejected"
                             => /\ Whos(Phase(D.log, "error")) = With(store.actionSubscribers, "error")
                                /\ \A i \in Places(D.log, "error") : D.log[i].error = dispatches[d].result.error
                                /\ D.st = "rejected" /\ D.error = dispatches[d].result.error
                                /\ Places(D.log, "after") = {}
                                /\ \A i \in Places(D.log, "error"), j \in Places(D.log, "reject") : i < j]_vars

\* C11: the subscribers notified of a commit are those of the subscriber list
\* as it was when the commit's handlers had finished, each once and in list
\* order, whatever the subscribers do to the list while they are notified: one
\* that unsubscribes (itself or another) makes none be skipped or called
\* twice, one that is added is not called for that commit.
C11_SubscriberSnapshot ==
    last.op = "commit" =>
        \A c \in Cids(last.log) :
            Positions(last.log, "applied", c) # {}
                => Whos(Events(last.log, "subscriber", c))
                      = last.log[At(last.log, "applied", c)].who

\* sKill was notified of a commit and unsubscribed s2, which was after it in
\* the list and was notified all the same; sAdd or sUnsub stood in the list too.
C11_Witness ==
    /\ last.op = "commit" /\ ~last.threw
    /\ \E i, j \in DOMAIN last.log :
          /\ i < j
          /\ last.log[i].k = "subscriber" /\ last.log[i].who = "sKill" /\ last.log[i].cid = 1
          /\ last.log[j].k = "subscriber" /\ last.log[j].who = "s2" /\ last.log[j].cid = 1
    /\ "s2" \notin Range(store.subscribers)
    /\ Len(last.log[At(last.log, "applied", 1)].who) >= 3

\* ---- the registries and the tree

\* The registries of the store emptied.
Emptied(s) ==
    [s EXCEPT !.mutations = << >>, !.actions = << >>,
              !.wrappedGetters = << >>, !.modulesNamespaceMap = << >>]

\* The store after an installation walk over its tree from empty registries.
FromScratch(s) == installModule(Exec(Emptied(s)), << >>, TRUE).s

\* C12: after any sequence of registerModule, unregisterModule and hotUpdate
\* calls the mutation, action and getter registries are those a from-scratch
\* installation walk over the current tree would produce: the same names, and
\* for each name the same handlers in the same order.
C12_RegistriesFromScratch ==
    /\ store.mutations = FromScratch(store).mutations
    /\ store.actions = FromScratch(store).actions
    /\ store.wrappedGetters = FromScratch(store).wrappedGetters

\* installModule has run for the module at path p.
Installed(s, p) == s.modules[p].context # << >>

\* The registry has, under name, the handler h of the module at path p.
HasHandler(registry, name, h, p) ==
    /\ name \in DOMAIN registry
    /\ \E i \in DOMAIN registry[name] :
          registry[name][i].h = h /\ registry[name][i].local.path = p

\* C13: every mutation and getter declared with key k in an installed module
\* at path p is registered under getNamespace(p) + k; every action too, unless
\* it is flagged root: it is then registered under k, not under the prefixed
\* name.
C13_QualifiedNames ==
    \A p \in DOMAIN store.modules :
        Installed(store, p) =>
            LET module    == store.modules[p]
                namespace == getNamespace(store.modules, p)
            IN  /\ \A i \in DOMAIN module.mutations :
                      HasHandler(store.mutations, namespace \o module.mutations[i].key,
                                 module.mutations[i].h, p)
                /\ \A i \in DOMAIN module.getters :
                      (namespace \o module.getters[i].key) \in DOMAIN store.wrappedGetters
                /\ \A i \in DOMAIN module.actions :
                      LET action == module.actions[i]
                      IN  IF action.root
                          THEN /\ HasHandler(store.actions, action.key, action.h, p)
                               /\ namespace # ""
                                     => ~HasHandler(store.actions, namespace \o action.key,
                                                    action.h, p)
                          ELSE HasHandler(store.actions, namespace \o action.key, action.h, p)

\* A namespaced module with an action flagged root is installed below the
\* root: glob is registered, its prefixed name is not.
C13_Witness ==
    \E p \in DOMAIN store.modules :
        /\ Installed(store, p)
        /\ getNamespace(store.modules, p) # ""
        /\ \E i \in DOMAIN store.modules[p].actions : store.modules[p].actions[i].root
        /\ HasHandler(store.actions, "glob", "aYglob", p)
        /\ (getNamespace(store.modules, p) \o "glob") \notin DOMAIN store.actions

\* The paths of the tree in the order of the installation walk: a module,
\* then its children in their order, each with its own.
RECURSIVE Walk(_, _)
RECURSIVE WalkChildren(_, _, _)
Walk(tree, path) == <<path>> \o WalkChildren(tree, path, tree[path].children)

WalkChildren(tree, path, children) ==
    IF children = << >> THEN << >>
    ELSE Walk(tree, path \o <<Head(children)>>) \o WalkChildren(tree, path, Tail(children))

\* The module at path p declares a getter whose qualified name is name.
DeclaresGetter(tree, p, name) ==
    \E i \in DOMAIN tree[p].getters : getNamespace(tree, p) \o tree[p].getters[i].key = name

\* Every registered getter is the one of the first module of the walk that
\* declares its name.
FirstWins(s) ==
    LET walk == Walk(s.modules, << >>)
    IN  \A name \in DOMAIN s.wrappedGetters :
           \E i \in DOMAIN walk :
              /\ DeclaresGetter(s.modules, walk[i], name)
              /\ \A j \in 1..(i - 1) : ~DeclaresGetter(s.modules, walk[j], name)
              /\ s.wrappedGetters[name].local.path = walk[i]
              /\ \E k \in DOMAIN s.modules[walk[i]].getters :
                    s.modules[walk[i]].getters[k].g = s.wrappedGetters[name].g

\* C14: the getter registry holds one getter per qualified name: of the
\* modules that declare a name, the one installed first has its getter kept,
\* and a later registerModule never replaces a getter that is registered.
C14_GetterFirstWins ==
    [][/\ \A path \in RegisterPaths :
             ( /\ last'.op = "registerModule" /\ last'.path = path /\ calls' = calls + 1
               /\ \E rawModule \in RuntimeDefs, preserveState \in BOOLEAN :
                     RegisterModule(path, rawModule, preserveState) )
                => \A name \in DOMAIN store.wrappedGetters :
                      /\ name \in DOMAIN store'.wrappedGetters
                      /\ store'.wrappedGetters[name] = store.wrappedGetters[name]
       /\ ( /\ last'.op \in {"hotUpdate", "unregisterModule"} /\ calls' = calls + 1
            /\ ~last'.threw )
             => FirstWins(store')]_vars

\* X was registered at b: it declares cnt as the root does, and cnt is still
\* the root's getter.
C14_Witness ==
    /\ last.op = "registerModule" /\ last.path = <<"b">> /\ ~last.threw
    /\ Installed(store, <<"b">>)
    /\ DeclaresGetter(store.modules, <<"b">>, "cnt")
    /\ store.wrappedGetters["cnt"].local.path = << >>

\* The name a call of type through the context of the module at path is for.
Qualified(s, path, type, root) ==
    LET namespace == getNamespace(s.modules, path)
    IN  IF namespace # "" /\ ~root THEN namespace \o type ELSE type

\* C15: a commit or dispatch of type t through the context of a module with
\* the non-empty namespace ns runs the handlers registered under ns + t, with
\* options.root those registered under t; through the context of a module
\* with an empty namespace, those registered under t.
C15_ScopedContext ==
    [][\A path \in LocalPaths, root \in BOOLEAN :
          /\ \A type \in LocalCommitTypes :
                ( /\ last'.op = "localCommit" /\ last'.path = path
                  /\ last'.type = type /\ last'.root = root
                  /\ LocalCommit(path, type, root) )
                   => LET name == Qualified(store, path, type, root)
                          log  == last'.log
                      IN  IF name \in DOMAIN store.mutations
                          THEN /\ log # << >> /\ log[1].k = "commit" /\ log[1].type = name
                               /\ ~last'.threw
                                     => Whos(Events(log, "mutation", 1))
                                           = Handlers(store.mutations[name])
                          ELSE log = << >> /\ store' = store
          /\ \A type \in LocalDispatchTypes :
                ( /\ last'.op = "localDispatch" /\ last'.path = path
                  /\ last'.type = type /\ last'.root = root
                  /\ LocalDispatch(path, type, root) )
                   => LET name == Qualified(store, path, type, root)
                      IN  IF name \in DOMAIN store.actions
                          THEN /\ Len(dispatches') = Len(dispatches) + 1
                               /\ dispatches'[Len(dispatches')].type = name
                               /\ Whos(Phase(dispatches'[Len(dispatches')].log, "handler"))
                                     = Handlers(store.actions[name])
                          ELSE dispatches' = dispatches /\ last'.ret = 0]_vars

\* inc was committed with options.root through the context of a module whose
\* namespace is not empty and that has its own inc: the handlers under the bare
\* name ran; before that, act was dispatched through such a context.
C15_Witness ==
    /\ last.op = "localCommit" /\ last.type = "inc" /\ last.root /\ ~last.threw
    /\ getNamespace(store.modules, last.path) # ""
    /\ (getNamespace(store.modules, last.path) \o "inc") \in DOMAIN store.mutations
    /\ Whos(Events(last.log, "mutation", 1)) = Handlers(store.mutations["inc"])
    /\ last.prev.op = "localDispatch" /\ last.prev.type = "act"
    /\ getNamespace(store.modules, last.prev.path) # ""
    /\ dispatches # << >>

\* The paths of the modules declared at construction.
StaticPaths == {<<"a">>, <<"a", "b">>}

\* C16: a module path registered at construction is still registered after
\* any sequence of registerModule, unregisterModule and hotUpdate calls.
C16_StaticStaysRegistered ==
    \A path \in StaticPaths :
        LET r == hasModule(store, path) IN ~r.threw /\ r.v

\* C17: unregisterModule(path) on a path whose parent is a module but that has
\* no module at its last segment changes nothing: the tree, the composed state
\* (a plain property of the parent's state named like the last segment
\* included) and the registries are as before.
C17_UnregisterAbsentNoOp ==
    [][\A path \in QueryPaths :
          ( /\ ParentRegistered(store, path)
            /\ ~isRegistered(store.modules, path).v
            /\ last'.op = "unregisterModule" /\ last'.path = path
            /\ UnregisterModule(path) )
             => /\ store'.modules = store.modules
                /\ store'.state = store.state
                /\ store'.mutations = store.mutations
                /\ store'.actions = store.actions
                /\ store'.wrappedGetters = store.wrappedGetters]_vars

\* C18: hasModule(path) returns a boolean for every non-empty path and never
\* throws: true when a module is registered at path, false otherwise, also
\* when the parent or an earlier segment of the path resolves to no module.
C18_HasModuleTotal ==
    [][\A path \in QueryPaths :
          ( /\ last'.op = "hasModule" /\ last'.path = path
            /\ HasModule(path) )
             => /\ ~last'.threw
                /\ last'.ret = (IF path \in DOMAIN store.modules THEN 1 ELSE 0)]_vars

\* The definitions of the module at path p are the same in both trees.
SameDefinitions(t1, t2, p) ==
    /\ t1[p].mutations = t2[p].mutations
    /\ t1[p].actions = t2[p].actions
    /\ t1[p].getters = t2[p].getters

\* C19: hotUpdate(newDef) never changes the set of registered module paths:
\* a child key of newDef that the tree lacks is not added, the walk stops at
\* that key (the keys after it at that level are not updated), and a module
\* that newDef does not mention is not removed.
C19_HotUpdateKeepsPaths ==
    [][\A newOptions \in HotOptions(store.modules) :
          ( /\ last'.op = "hotUpdate" /\ calls' = calls + 1
            /\ HotUpdate(newOptions) )
             => /\ DOMAIN store'.modules = DOMAIN store.modules
                /\ \A p \in DOMAIN store.modules :
                      store'.modules[p].children = store.modules[p].children
                /\ ~hasChild(store.modules, << >>, newOptions.modules[1].key)
                      => \A p \in DOMAIN store.modules \ {<< >>} :
                            SameDefinitions(store'.modules, store.modules, p)]_vars

\* A hot update whose definition names c before a has run: the root has its
\* new handlers, there is no module c, and a, which comes after c, kept its
\* handlers; the runtime module b that the definition does not name is there.
C19_Witness ==
    /\ last.op = "hotUpdate" /\ ~last.threw
    /\ store.modules[<< >>].mutations[1].h = "mR2"
    /\ <<"c">> \notin DOMAIN store.modules
    /\ <<"a">> \in DOMAIN store.modules
    /\ store.modules[<<"a">>].mutations[1].h \in {"mA", "mX", "mY"}
    /\ <<"b">> \in DOMAIN store.modules

\* C20: a commit B made by a mutation subscriber while the subscribers of a
\* commit A are notified runs behind A: no handler of B runs and no subscriber
\* is notified of B until every subscriber has been notified of A.
C20_SubscriberCommitQueued ==
    last.op = "commit" =>
        \A i \in DOMAIN last.log :
            (last.log[i].k = "commit" /\ last.log[i].who = "subscriber")
                => \A j \in Positions(last.log, "subscriber", last.log[i - 1].cid) : j < i

\* ---- the composed state

\* The state a definition composes: its own, with the state each nested module
\* composes under the module's key.
RECURSIVE ComposedState(_)
RECURSIVE ComposedChildren(_, _)
ComposedState(def) == ComposedChildren(def.state, def.modules)

ComposedChildren(state, modules) ==
    IF modules = << >> THEN state
    ELSE ComposedChildren(
            SetAt(state, << >>, Head(modules).key, ComposedState(Head(modules).def)),
            Tail(modules))

\* The module at path holds the definitions of rawModule.
BuiltFrom(s, path, rawModule) ==
    /\ path \in DOMAIN s.modules
    /\ s.modules[path].mutations = rawModule.mutations
    /\ s.modules[path].actions = rawModule.actions
    /\ s.modules[path].getters = rawModule.getters

\* C21, as claimed: registerModule(path, def) under a registered parent,
\* without preserveState, sets the slot named by the last segment of path in
\* the parent's state to the state def composes, whatever was there, and
\* leaves the rest of the composed state as it was; with preserveState it
\* leaves the composed state unchanged.
C21_RegisterSetsSlot ==
    [][\A path \in RegisterPaths, rawModule \in RuntimeDefs :
          ( /\ last'.op = "registerModule" /\ last'.path = path /\ calls' = calls + 1
            /\ ParentRegistered(store, path)
            /\ BuiltFrom(store', path, rawModule) )
             => /\ RegisterModule(path, rawModule, FALSE)
                      => store'.state = SetAt(store.state, Front(path), Last(path),
                                              ComposedState(rawModule))
                /\ RegisterModule(path, rawModule, TRUE)
                      => store'.state = store.state]_vars

\* C21, amended: the same, for a parent whose state is an object of the
\* composed state; the call then returns normally.
C21_RegisterSetsSlotWithParentState ==
    [][\A path \in RegisterPaths, rawModule \in RuntimeDefs :
          ( /\ last'.op = "registerModule" /\ last'.path = path /\ calls' = calls + 1
            /\ ParentRegistered(store, path)
            /\ BuiltFrom(store', path, rawModule) )
             => /\ (ParentStateIsObject(store, path) /\ RegisterModule(path, rawModule, FALSE))
                      => /\ ~last'.threw
                         /\ store'.state = SetAt(store.state, Front(path), Last(path),
                                                 ComposedState(rawModule))
                /\ RegisterModule(path, rawModule, TRUE)
                      => store'.state = store.state]_vars

\* Y was registered at b without preserveState: the number the root's state
\* had under b gave way to Y's state, its child's included; then a module was
\* registered at a/a with preserveState, and the state has no slot for it.
C21_Witness ==
    /\ calls = 2
    /\ last.op = "registerModule" /\ last.path = <<"a", "a">> /\ ~last.threw
    /\ <<"a", "a">> \in DOMAIN store.modules
    /\ ~SlotAt(store, <<"a", "a">>)
    /\ last.prev.op = "registerModule" /\ last.prev.path = <<"b">> /\ ~last.prev.threw
    /\ Prop(store.state, "b") = SetAt(Counter, << >>, "b", Counter)

\* ---- the state a handler is given

\* The path of the module whose handler made entry i of the log, a
\* "mutation" entry: the handlers of a commit run in the order of the registry.
PathOfMutation(s, log, i) ==
    LET k == Cardinality({j \in 1..i : log[j].k = "mutation" /\ log[j].cid = log[i].cid})
    IN  s.mutations[log[i].type][k].local.path

\* No handler that ran before entry i of the log belongs to the module of
\* entry i or to one below it: the call has not yet written to that module's
\* state.
Untouched(s, log, i) ==
    \A j \in 1..(i - 1) :
        log[j].k = "mutation"
            => ~IsPrefix(PathOfMutation(s, log, i), PathOfMutation(s, log, j))

\* C22: a mutation or action handler of the module at path p is given the
\* value found at p in the store's root state as it is when the handler is
\* called, whatever the state was when the module was installed: in a commit,
\* the value found there when commit was called, as long as the commit has not
\* yet written to it; in a dispatch, the value found there when dispatch was
\* called.
C22_LocalStateResolvedAtCall ==
    [][/\ (last'.op = "commit" /\ calls' = calls + 1)
            => \A i \in DOMAIN last'.log :
                  (last'.log[i].k = "mutation" /\ Untouched(store, last'.log, i))
                     => LET state == getNestedState(store.state,
                                                    PathOfMutation(store, last'.log, i))
                        IN  ~state.threw /\ last'.log[i].v = state.v
       /\ (last'.op = "dispatch" /\ calls' = calls + 1 /\ last'.type \in DOMAIN store.actions)
            => LET entry == store.actions[last'.type]
                   log   == last'.log
               IN  /\ Len(log) <= Len(entry)
                   /\ ~last'.threw => Len(log) = Len(entry)
                   /\ \A k \in DOMAIN log :
                         LET state == getNestedState(store.state, entry[k].local.path)
                         IN  /\ log[k].k = "action" /\ log[k].who = entry[k].h
                             /\ ~state.threw /\ log[k].v = state.v]_vars

\* The state was replaced by one where a.b.n is 9, inc of a/b was
\* committed, then act was dispatched: the action handler of a/b was given
\* {n: 10}, not the {n: 0} the module was installed with.
C22_Witness ==
    /\ calls = 3
    /\ last.op = "dispatch" /\ ~last.threw
    /\ last.prev.op = "commit" /\ ~last.prev.threw
    /\ store.modules[<<"a", "b">>].state = Counter
    /\ \E k \in DOMAIN last.log :
          /\ last.log[k].k = "action" /\ last.log[k].who = "aAB"
          /\ last.log[k].v = (<< >> :> ObjNode) @@ (<<"n">> :> Leaf(10))

\* C23: the committing flag is true whenever a mutation handler is called,
\* the handlers of a commit made inside a handler included, and it is false
\* once a commit, replaceState, registerModule or unregisterModule call made
\* from outside has ended, by returning or by throwing.
C23_CommittingWindow ==
    /\ \A i \in DOMAIN last.log : last.log[i].k = "mutation" => last.log[i].flag
    /\ last.op \in {"commit", "replaceState", "registerModule", "unregisterModule"}
          => ~store.committing

====
